---------------------------- MODULE Spec2Model ----------------------------
(* Model of the iMessage history reader                                    *)
(*   src/messaging-plugin/skills/messaging/scripts/platforms/imessage-read.py *)
(* and of the contact lookup and the contact insertion of the people plugin *)
(*   src/people-plugin/skills/messaging/scripts/lookup-contact.py          *)
(*   src/people-plugin/skills/messaging/scripts/add-contact.py             *)
(* Byte strings and text are sequences of integers (byte / code point      *)
(* values); Python's None is the value None below.                         *)
EXTENDS Integers, Sequences, FiniteSets, TLC

VARIABLES
    chunks,       \* extractor input, as the list of pieces it is built from
    data,         \* extractor input: the byte buffer (attributedBody)
    extracted,    \* outcome of extract_text_from_attributed_body(data)
    identifier,   \* resolve_contact: the identifier argument
    contacts,     \* resolve_contact: the directory (list of entries); in main,
                  \* the list load_contacts returned (line 354)
    resolved,     \* resolve_contact: the returned pair
    fsState,      \* chat.db on disk: "missing", "denied", "noprobe", "ok"
    store,        \* rows of the message table joined with handle, in rowid order
    args,         \* parsed command line: contact, recent, keyword, since
    contactsFile, \* contacts.yaml: whether it exists, and its contacts
    pc,           \* position of main / get_messages
    accessOk,     \* value returned by check_fda_access (once fdaChecks > 0)
    fdaChecks,    \* number of calls of check_fda_access
    gmCalls,      \* number of calls of get_messages
    contact,      \* (contact_name, contact_id) as resolved by main
    conns,        \* open sqlite connections, by the function that opened them
    cursor,       \* rows the query of get_messages selected, in fetch order
    idx,          \* number of cursor rows the loop of get_messages consumed
    messages,     \* the list get_messages accumulates and returns
    stderr,       \* what main wrote to stderr
    mainResult,   \* how main ended: "running", "return 0", "return 1", or
                  \* "raise" when an exception leaves it
    results,      \* the lists the calls of get_messages returned, in call order
    hasYaml,      \* HAS_YAML: the yaml module could be imported (lines 37-42)
    extractCalls, \* rowids of the rows for which the current call of
                  \* get_messages invoked the extractor, in call order
    lc_contacts,  \* lookup-contact: the contacts find_contact searches
    lc_search_name, \* lookup-contact: the search_name argument
    lc_found,     \* lookup-contact: what find_contact returned
    ac_args,      \* add-contact: the parsed command line
    ac_file,      \* add-contact: contacts.yaml, whether it exists and its text
    ac_before,    \* add-contact: contacts.yaml as it was when main started
    ac_pc,        \* add-contact: position of main
    ac_phone,     \* add-contact: main's local phone (validated)
    ac_email,     \* add-contact: main's local email (validated)
    ac_contact_yaml, \* add-contact: main's local contact_yaml
    ac_result,    \* add-contact: the result main printed
    ac_exit       \* add-contact: the status main exited with, -1 before

vars == <<chunks, data, extracted, identifier, contacts, resolved, fsState,
          store, args, contactsFile, pc, accessOk, fdaChecks, gmCalls, contact,
          conns, cursor, idx, messages, stderr, mainResult, results,
          extractCalls, hasYaml, lc_contacts, lc_search_name, lc_found,
          ac_args, ac_file, ac_before, ac_pc, ac_phone, ac_email,
          ac_contact_yaml, ac_result, ac_exit>>

lookupVars == <<lc_contacts, lc_search_name, lc_found>>
addVars == <<ac_args, ac_file, ac_before, ac_pc, ac_phone, ac_email,
             ac_contact_yaml, ac_result, ac_exit>>
extractVars == <<chunks, data, extracted>>
resolveVars == <<identifier, contacts, resolved>>
mainVars == <<fsState, store, args, contactsFile, pc, accessOk, fdaChecks,
              gmCalls, contact, conns, cursor, idx, messages, stderr, mainResult,
              results, extractCalls, hasYaml>>

---------------------------------------------------------------------------
(* Values *)

None == <<-1>>
Raised == <<-2>>      \* in place of a value: an exception left the call
NotRun == [val |-> None, tried |-> <<"notrun">>]

\* Python truthiness of an Optional[str] / Optional[bytes]
Truthy(x) == x # None /\ Len(x) > 0

BoundedSeq(S, n) == UNION {[1..k -> S] : k \in 0..n}

RECURSIVE Flatten(_)
Flatten(ss) == IF Len(ss) = 0 THEN <<>> ELSE Head(ss) \o Flatten(Tail(ss))

Range(f) == { f[i] : i \in 1..Len(f) }

SetMin(S) == CHOOSE x \in S : \A y \in S : x <= y

---------------------------------------------------------------------------
(* Bytes and text *)

B_NSString == <<78, 83, 83, 116, 114, 105, 110, 103>>
B_NSMutableString ==
    <<78, 83, 77, 117, 116, 97, 98, 108, 101, 83, 116, 114, 105, 110, 103>>
B_NSAttributedString ==
    <<78, 83, 65, 116, 116, 114, 105, 98, 117, 116, 101, 100, 83, 116, 114,
      105, 110, 103>>
B_streamtyped == <<115, 116, 114, 101, 97, 109, 116, 121, 112, 101, 100>>
B_null == <<36, 110, 117, 108, 108>>                        \* "$null"
B_bplist == <<98, 112, 108, 105, 115, 116>>                 \* b'bplist'
B_bplist00 == <<98, 112, 108, 105, 115, 116, 48, 48>>       \* b'bplist00'
B_Hello == <<72, 101, 108, 108, 111>>
B_Meeting ==
    <<77, 101, 101, 116, 105, 110, 103, 32, 97, 116, 32, 110, 111, 111, 110>>

\* the lower-cased tokens of the exclusion list of Method 2
MetadataTokens ==
    { <<110, 115, 115, 116, 114, 105, 110, 103>>,                    \* nsstring
      <<110, 115, 109, 117, 116, 97, 98, 108, 101, 115, 116, 114, 105, 110,
        103>>,                                                \* nsmutablestring
      <<110, 115, 97, 116, 116, 114, 105, 98, 117, 116, 101, 100>>, \* nsattributed
      <<115, 116, 114, 101, 97, 109, 116, 121, 112, 101, 100>> }    \* streamtyped

\* the character class [\x20-\x7e\xc0-\xff]
IsReadable(b) == (b >= 32 /\ b <= 126) \/ (b >= 192 /\ b <= 255)

\* str.isspace for the code points of the model
IsSpace(c) == (c >= 9 /\ c <= 13) \/ (c >= 28 /\ c <= 32)

\* bytes.lower() / str.lower() on ASCII letters
Lower(s) == [i \in 1..Len(s) |-> IF s[i] >= 65 /\ s[i] <= 90 THEN s[i] + 32 ELSE s[i]]

\* tok occurs in s at position p
MatchAt(s, p, tok) ==
    /\ p >= 1
    /\ p + Len(tok) - 1 <= Len(s)
    /\ \A k \in 1..Len(tok) : s[p + k - 1] = tok[k]

\* the `in` operator on bytes and on str
Contains(s, tok) == \E p \in 1..(Len(s) - Len(tok) + 1) : MatchAt(s, p, tok)

StartsWith(s, tok) == MatchAt(s, 1, tok)

\* str.strip()
RECURSIVE LStrip(_)
LStrip(s) == IF Len(s) > 0 /\ IsSpace(s[1]) THEN LStrip(Tail(s)) ELSE s
RECURSIVE RStrip(_)
RStrip(s) ==
    IF Len(s) > 0 /\ IsSpace(s[Len(s)]) THEN RStrip(SubSeq(s, 1, Len(s) - 1)) ELSE s
Strip(s) == RStrip(LStrip(s))

\* bytes.decode('utf-8', errors='ignore') of a run of the class
\* [\x20-\x7e\xc0-\xff]: no byte of the run is a continuation byte
\* (0x80-0xbf), so every byte >= 0xc0 is an invalid or incomplete sequence
\* and is dropped; the ASCII bytes decode to themselves.
DecodeIgnore(run) == SelectSeq(run, LAMBDA b : b < 128)

\* last index of the maximal run of readable bytes that starts at i
\* (i - 1 when d[i] is not readable)
RECURSIVE RunEnd(_, _)
RunEnd(d, i) ==
    IF i <= Len(d) /\ IsReadable(d[i]) THEN RunEnd(d, i + 1) ELSE i - 1

---------------------------------------------------------------------------
(* extract_text_from_attributed_body *)

GapMax == 20          \* .{1,20}?
ProximityMin == 2     \* {2,}
SegmentMin == 4       \* {4,}
Newline == 10

\* Method 1: re.search(rb'NSString.{1,20}?([\x20-\x7e\xc0-\xff]{2,})', data).
\* The gap lengths with which the pattern matches when NSString is at p: the
\* gap bytes are any bytes but newline, and at least ProximityMin readable
\* bytes follow the gap.
ProximityGaps(d, p) ==
    { k \in 1..GapMax :
        /\ p + Len(B_NSString) + k + ProximityMin - 1 <= Len(d)
        /\ \A j \in 0..(k - 1) : d[p + Len(B_NSString) + j] # Newline
        /\ \A j \in 0..(ProximityMin - 1) : IsReadable(d[p + Len(B_NSString) + k + j]) }

\* group(1) of the leftmost match, the gap being the shortest one (lazy
\* quantifier) and the group the whole run (greedy quantifier); None when
\* the pattern matches nowhere
ProximityMatch(d) ==
    LET starts == { p \in 1..Len(d) :
                      MatchAt(d, p, B_NSString) /\ ProximityGaps(d, p) # {} }
    IN  IF starts = {} THEN None
        ELSE LET p == SetMin(starts)
                 g == p + Len(B_NSString) + SetMin(ProximityGaps(d, p))
             IN  SubSeq(d, g, RunEnd(d, g))

\* Method 2: re.findall(rb'[\x20-\x7e\xc0-\xff]{4,}', data), the maximal
\* readable runs of length >= SegmentMin, left to right
RECURSIVE SegmentsFrom(_, _)
SegmentsFrom(d, i) ==
    IF i > Len(d) THEN <<>>
    ELSE LET j == RunEnd(d, i)
         IN  IF j - i + 1 >= SegmentMin
               THEN <<SubSeq(d, i, j)>> \o SegmentsFrom(d, j + 1)
               ELSE IF j >= i THEN SegmentsFrom(d, j + 1)
                              ELSE SegmentsFrom(d, i + 1)

ReadableSegments(d) == SegmentsFrom(d, 1)

\* any(x in s.lower() for x in [b'nsstring', ...])
IsMetadata(s) == \E x \in MetadataTokens : Contains(Lower(s), x)

\* the first run taken instead of the longest one
Longest_First(f) == f[1]

\* max(filtered, key=len): the first of the longest
Longest(f) ==
    f[SetMin({ i \in 1..Len(f) : \A j \in 1..Len(f) : Len(f[j]) <= Len(f[i]) })]

\* Method 2 as a whole: the decoded, stripped longest run that is not
\* metadata, None when there is none or it decodes to nothing
Scanner(d) ==
    LET filtered == SelectSeq(ReadableSegments(d), LAMBDA s : ~IsMetadata(s))
    IN  IF Len(filtered) = 0 THEN None
        ELSE LET decoded == Strip(DecodeIgnore(Longest(filtered)))
             IN  IF Len(decoded) > 0 THEN decoded ELSE None

\* plistlib.loads(data), reduced to what the code reads of it: the entries
\* of plist['$objects'] in table order. The container is the 8-byte header
\* 'bplist00' followed by objects: marker 0x00 is a null object, 0x5n an
\* ASCII string of n bytes, 0x6n a UTF-16 (big endian) string of n code
\* units. Anything else, or a truncated object, is a decode error.
\* A non-string entry is None in the result; an error is [ok |-> FALSE].
RECURSIVE PlistObjects(_, _)
PlistObjects(d, i) ==
    IF i > Len(d) THEN [ok |-> TRUE, objs |-> <<>>]
    ELSE LET m == d[i]
             n == m % 16
             ascii == m >= 80 /\ m <= 94
             utf16 == m >= 96 /\ m <= 110
             last == IF ascii THEN i + n ELSE IF utf16 THEN i + 2 * n ELSE i
             obj == IF ascii THEN SubSeq(d, i + 1, i + n)
                    ELSE IF utf16
                      THEN [k \in 1..n |-> 256 * d[i + 2 * k - 1] + d[i + 2 * k]]
                      ELSE None
             rest == PlistObjects(d, last + 1)
         IN  IF ~(m = 0 \/ ascii \/ utf16) \/ last > Len(d)
                  \/ (ascii /\ \E k \in (i + 1)..last : d[k] >= 128)
               THEN [ok |-> FALSE, objs |-> <<>>]
               ELSE IF rest.ok THEN [ok |-> TRUE, objs |-> <<obj>> \o rest.objs]
                               ELSE rest

PlistLoads(d) ==
    IF StartsWith(d, B_bplist00) THEN PlistObjects(d, Len(B_bplist00) + 1)
    ELSE [ok |-> FALSE, objs |-> <<>>]

\* the entries the loop of Method 3 skips by value
Sentinels == { B_null, B_NSString, B_NSMutableString }

\* isinstance(obj, str) and len(obj) > 1 and obj not in [...]
Eligible(obj) == obj # None /\ Len(obj) > 1 /\ obj \notin Sentinels

\* Method 3 (the body of `if data.startswith(b'bplist')`): the first eligible
\* entry of the object table, None on a decode error or when there is none
Decoder(d) ==
    LET plist == PlistLoads(d)
        hits == IF plist.ok THEN SelectSeq(plist.objs, Eligible) ELSE <<>>
    IN  IF Len(hits) > 0 THEN hits[1] ELSE None

\* the function without its try/except blocks: a container that does not
\* decode raises
ExtractRun_Unguarded(d) ==
    IF ~Truthy(d) THEN [val |-> None, tried |-> <<>>]
    ELSE LET m1 == ProximityMatch(d)
         IN  IF m1 # None
               THEN [val |-> Strip(DecodeIgnore(m1)), tried |-> <<"regex">>]
               ELSE LET m2 == Scanner(d)
                    IN  IF m2 # None
                          THEN [val |-> m2, tried |-> <<"regex", "scanner">>]
                          ELSE IF StartsWith(d, B_bplist)
                            THEN [val |-> IF PlistLoads(d).ok THEN Decoder(d) ELSE Raised,
                                  tried |-> <<"regex", "scanner", "decoder">>]
                            ELSE [val |-> None, tried |-> <<"regex", "scanner">>]

\* extract_text_from_attributed_body(data): the value returned and the
\* methods that were consulted, in the order they were. Every exception
\* inside is caught (lines 106, 109): the value is never Raised.
ExtractRun(d) ==
    IF ~Truthy(d) THEN [val |-> None, tried |-> <<>>]
    ELSE LET m1 == ProximityMatch(d)
         IN  IF m1 # None
               THEN [val |-> Strip(DecodeIgnore(m1)), tried |-> <<"regex">>]
               ELSE LET m2 == Scanner(d)
                    IN  IF m2 # None
                          THEN [val |-> m2, tried |-> <<"regex", "scanner">>]
                          ELSE IF StartsWith(d, B_bplist)
                            THEN [val |-> Decoder(d),
                                  tried |-> <<"regex", "scanner", "decoder">>]
                            ELSE [val |-> None, tried |-> <<"regex", "scanner">>]

extract_text_from_attributed_body(d) == ExtractRun(d).val

---------------------------------------------------------------------------
(* Inputs of the extractor: buffers built from at most MaxChunks pieces *)

MaxChunks == 3

\* pieces of a typedstream / keyed-archive payload
C_Sep == <<1>>                         \* a non-readable structural byte
C_Spaces == <<32, 32>>
C_High == <<255, 255>>                 \* readable bytes that decode to nothing
C_ObjHelloUtf16 ==                     \* bplist object: UTF-16 string "Hello"
    <<101, 0, 72, 0, 101, 0, 108, 0, 108, 0, 111>>
C_ObjSpacesUtf16 == <<98, 0, 32, 0, 32>>   \* bplist object: UTF-16 string "  "
C_ObjNSString == <<88>> \o B_NSString      \* bplist object: ASCII "NSString"

MetaChunks == { B_NSString, B_NSMutableString, B_NSAttributedString, B_streamtyped }
SepChunks == { C_Sep, C_Spaces }
Chunks == MetaChunks \cup SepChunks \cup
          { C_High, B_Hello, B_Meeting, B_bplist00, C_ObjHelloUtf16,
            C_ObjSpacesUtf16, C_ObjNSString }

\* values of the variables a specification does not use
IdleExtract == chunks = <<>> /\ data = <<>> /\ extracted = NotRun
IdleResolve == identifier = <<>> /\ contacts = <<>> /\ resolved = None
NoPerson == [name |-> <<>>, nicknames |-> <<>>]
NotLooked == [done |-> FALSE, some |-> FALSE, contact |-> NoPerson]
IdleLookup == lc_contacts = <<>> /\ lc_search_name = <<>> /\ lc_found = NotLooked
NoAddArgs == [name |-> <<>>, phone |-> None, email |-> None, messenger |-> None,
              dry_run |-> FALSE]
NoResult == [success |-> FALSE, error |-> "", dry_run |-> FALSE]
IdleAdd ==
    /\ ac_args = NoAddArgs
    /\ ac_file = [exists |-> FALSE, content |-> <<>>]
    /\ ac_before = ac_file
    /\ ac_pc = "idle" /\ ac_phone = None /\ ac_email = None
    /\ ac_contact_yaml = <<>> /\ ac_result = NoResult /\ ac_exit = -1
IdleMain ==
    /\ fsState = "ok" /\ store = <<>> /\ args = None
    /\ contactsFile = [exists |-> FALSE, contacts |-> <<>>]
    /\ pc = "idle" /\ accessOk = FALSE /\ fdaChecks = 0 /\ gmCalls = 0
    /\ contact = None /\ conns = <<>> /\ cursor = <<>> /\ idx = 0
    /\ messages = <<>> /\ stderr = <<>> /\ mainResult = "running"
    /\ results = <<>>
    /\ extractCalls = <<>> /\ hasYaml = TRUE

InitExtract ==
    /\ chunks \in BoundedSeq(Chunks, MaxChunks)
    /\ data = Flatten(chunks)
    /\ extracted = NotRun
    /\ IdleResolve
    /\ IdleMain
    /\ IdleLookup /\ IdleAdd

\* one call of extract_text_from_attributed_body(data)
ExtractText ==
    /\ extracted = NotRun
    /\ extracted' = ExtractRun(data)
    /\ UNCHANGED <<lookupVars, addVars, chunks, data, resolveVars, mainVars>>

NextExtract == ExtractText

SpecExtract == InitExtract /\ [][NextExtract]_vars

---------------------------------------------------------------------------
(* resolve_contact *)

S_Bob == <<66, 111, 98>>
S_bob == <<98, 111, 98>>
S_Al == <<65, 108>>
S_AL == <<65, 76>>
S_zed == <<122, 101, 100>>
S_Phone1 == <<43, 49>>            \* "+1"
S_Email == <<97, 64, 98>>         \* "a@b"
S_PlusZ == <<43, 122>>            \* "+z"
Plus == 43
AtSign == 64

\* a directory entry: name and platforms.imessage.phone / .email are None
\* when the key is absent
Entry(n, ns, p, e) == [name |-> n, nicknames |-> ns, phone |-> p, email |-> e]

\* identifier.startswith("+") or "@" in identifier
IsCanonicalInput(id) == StartsWith(id, <<Plus>>) \/ Contains(id, <<AtSign>>)

\* contact.get("name", "")
NameOf(c) == IF c.name = None THEN <<>> ELSE c.name

\* the email looked up before the phone
AddressOf_EmailFirst(c) == IF Truthy(c.email) THEN c.email ELSE c.phone

\* imessage_info.get("phone") or imessage_info.get("email")
AddressOf(c) == IF Truthy(c.phone) THEN c.phone ELSE c.email

\* a matching entry returned whether it has an address or not
HasAddress_Unchecked(c) == TRUE

\* `if phone:`, lines 179 and 187
HasAddress(c) == Truthy(AddressOf(c))

\* the nickname that matched given back in place of the entry's name
DisplayName_Nickname(c, nick) == nick

\* contact.get("name", nick), line 188
DisplayName(c, nick) == IF c.name = None THEN nick ELSE c.name

\* the nicknames of c that equal the lower-cased identifier, in list order
MatchingNicks(idl, c) == SelectSeq(c.nicknames, LAMBDA nick : idl = Lower(nick))

\* the loop over contacts, from entry i on: per entry the name is compared,
\* then each nickname; an entry that matches returns only if it has an
\* address
\* no address in the pair returned for an identifier that is not found
NotFound_NoAddress(id) == <<id, <<>>>>

\* line 191: not found, the identifier is returned as it is
NotFound(id) == <<id, id>>

RECURSIVE ResolveFrom(_, _, _)
ResolveFrom(id, cs, i) ==
    IF i > Len(cs) THEN NotFound(id)
    ELSE LET c == cs[i]
             idl == Lower(id)
             nicks == MatchingNicks(idl, c)
         IN  IF idl = Lower(NameOf(c)) /\ HasAddress(c)
               THEN <<NameOf(c), AddressOf(c)>>
               ELSE IF Len(nicks) > 0 /\ HasAddress(c)
                 THEN <<DisplayName(c, nicks[1]), AddressOf(c)>>
                 ELSE ResolveFrom(id, cs, i + 1)

\* the directory searched for every identifier, addresses included
resolve_contact_NoPassThrough(id, cs) == ResolveFrom(id, cs, 1)

resolve_contact(id, cs) ==
    IF IsCanonicalInput(id) THEN <<id, id>> ELSE ResolveFrom(id, cs, 1)

MaxEntries == 2

EntryNames == { None, S_Bob, S_Al, S_Phone1 }
EntryNicknames == { <<>>, <<S_bob>>, <<S_Email, S_AL>> }
Entries ==
    { Entry(n, ns, p, e) : n \in EntryNames, ns \in EntryNicknames,
                           p \in { None, S_Phone1 }, e \in { None, S_Email } }
Identifiers == { S_bob, S_AL, S_zed, S_Phone1, S_Email, S_PlusZ }

InitResolve ==
    /\ identifier \in Identifiers
    /\ contacts \in BoundedSeq(Entries, MaxEntries)
    /\ resolved = None
    /\ IdleExtract
    /\ IdleMain
    /\ IdleLookup /\ IdleAdd

\* one call of resolve_contact(identifier, contacts)
ResolveContact ==
    /\ resolved = None
    /\ resolved' = resolve_contact(identifier, contacts)
    /\ UNCHANGED <<lookupVars, addVars, identifier, contacts, extractVars,
                   mainVars>>

NextResolve == ResolveContact

SpecResolve == InitResolve /\ [][NextResolve]_vars

---------------------------------------------------------------------------
(* Properties of resolve_contact *)

\* the entries whose primary name equals the identifier case-insensitively
\* and that have an iMessage address
ExactNameHits(id, cs) ==
    { i \in 1..Len(cs) : Lower(NameOf(cs[i])) = Lower(id) /\ Truthy(AddressOf(cs[i])) }

\* C1: when some entry's primary name equals the identifier
\* case-insensitively and that entry has an iMessage address, the pair
\* returned is that entry's (name, address), whatever nicknames earlier
\* entries have.
C1_ExactNameOutranksNickname ==
    (resolved # None /\ ~IsCanonicalInput(identifier)
       /\ ExactNameHits(identifier, contacts) # {})
    => LET i == SetMin(ExactNameHits(identifier, contacts))
       IN  resolved = <<contacts[i].name, AddressOf(contacts[i])>>

\* the two canonical forms of an address
PhoneForm(a) == Len(a) >= 2 /\ a[1] = Plus /\ \A k \in 2..Len(a) : a[k] \in 48..57
EmailForm(a) == \E k \in 1..Len(a) : a[k] = AtSign
ExactlyOneForm(a) == PhoneForm(a) # EmailForm(a)

\* entry c is matched by the identifier (name or nickname, case-insensitive)
\* and has a phone or an email
MatchedWithAddress(id, c) ==
    /\ \/ (c.name # None /\ Lower(c.name) = Lower(id))
       \/ \E k \in 1..Len(c.nicknames) : Lower(c.nicknames[k]) = Lower(id)
    /\ (Truthy(c.phone) \/ Truthy(c.email))

\* C13 as stated: the address returned is in exactly one canonical form.
C13_AddressCanonical ==
    resolved # None => ExactlyOneForm(resolved[2])

\* C13: the address returned is the input itself when the input begins with
\* '+' or contains '@' or matches no entry that has an address, and otherwise
\* the phone, else the email, of the first matched entry; it is in exactly one
\* canonical form whenever the input is.
C13_AddressIsInputOrEntryAddress ==
    resolved # None =>
        LET hits == { i \in 1..Len(contacts) :
                        MatchedWithAddress(identifier, contacts[i]) }
            a == resolved[2]
        IN  /\ IF IsCanonicalInput(identifier) \/ hits = {}
                 THEN a = identifier
                 ELSE LET c == contacts[SetMin(hits)]
                      IN  a = IF Truthy(c.phone) THEN c.phone ELSE c.email
            /\ ExactlyOneForm(identifier) => ExactlyOneForm(a)

\* an identifier in neither form matched an entry that has both a phone and
\* an email, and the phone came back
C13_Witness ==
    /\ resolved # None
    /\ ~ExactlyOneForm(identifier)
    /\ \E i \in 1..Len(contacts) :
         /\ MatchedWithAddress(identifier, contacts[i])
         /\ Truthy(contacts[i].phone) /\ Truthy(contacts[i].email)
    /\ PhoneForm(resolved[2])

\* C16: an input that begins with '+' or contains '@' comes back as
\* (input, input) whatever the directory holds, also when the name or a
\* nickname of an entry equals the input.
C16_PassThrough ==
    (resolved # None
       /\ (identifier[1] = Plus \/ \E k \in 1..Len(identifier) : identifier[k] = AtSign))
    => resolved = <<identifier, identifier>>

\* the input is an address, and an entry with another address has it as its
\* name or as a nickname
C16_Witness ==
    /\ resolved = <<identifier, identifier>>
    /\ \E k \in 1..Len(identifier) : identifier[k] = AtSign
    /\ \E i \in 1..Len(contacts) :
         /\ MatchedWithAddress(identifier, contacts[i])
         /\ contacts[i].phone = S_Phone1

---------------------------------------------------------------------------
(* The store, the query and the date filter of get_messages *)

APPLE_EPOCH_DAYS == 11323     \* APPLE_EPOCH_OFFSET (978307200 s) in days
OrdinalAppleEpoch == 730486   \* date(2001, 1, 1).toordinal()
OVERFETCH == 2                \* limit * 2
Hyphen == 45

\* The store-native timestamp m.date counts nanoseconds from 2001-01-01;
\* the model counts it in days, which the translation of `since` (midnight
\* of a calendar day) and the ordering of rows are indifferent to.

IsDigit(c) == c >= 48 /\ c <= 57

RECURSIVE DigitsValue(_)
DigitsValue(f) ==
    IF Len(f) = 0 THEN 0
    ELSE 10 * DigitsValue(SubSeq(f, 1, Len(f) - 1)) + (f[Len(f)] - 48)

AllDigits(f) == \A i \in 1..Len(f) : IsDigit(f[i])

IsLeap(y) == (y % 4 = 0 /\ y % 100 # 0) \/ y % 400 = 0

DaysInMonth(y, m) ==
    IF m = 2 THEN (IF IsLeap(y) THEN 29 ELSE 28)
    ELSE IF m \in {4, 6, 9, 11} THEN 30 ELSE 31

RECURSIVE DaysBeforeMonth(_, _)
DaysBeforeMonth(y, m) ==
    IF m <= 1 THEN 0 ELSE DaysBeforeMonth(y, m - 1) + DaysInMonth(y, m - 1)

Ordinal(y, m, d) ==
    365 * (y - 1) + ((y - 1) \div 4) - ((y - 1) \div 100) + ((y - 1) \div 400)
      + DaysBeforeMonth(y, m) + d

\* datetime.strptime(since, "%Y-%m-%d"): [ok |-> FALSE] stands for ValueError.
\* %Y is four digits; %m is 1[0-2]|0[1-9]|[1-9]; %d is
\* 3[0-1]|[1-2]\d|0[1-9]|[1-9]| [1-9]; the date must exist.
ParseDate(str) ==
    LET hy == { i \in 1..Len(str) : str[i] = Hyphen }
    IN  IF Cardinality(hy) # 2 THEN [ok |-> FALSE, day |-> 0]
        ELSE LET h1 == SetMin(hy)
                 h2 == SetMin(hy \ {h1})
                 fy == SubSeq(str, 1, h1 - 1)
                 fm == SubSeq(str, h1 + 1, h2 - 1)
                 fd0 == SubSeq(str, h2 + 1, Len(str))
                 fd == IF Len(fd0) = 2 /\ fd0[1] = 32 THEN Tail(fd0) ELSE fd0
                 y == DigitsValue(fy)
                 m == DigitsValue(fm)
                 d == DigitsValue(fd)
             IN  IF /\ Len(fy) = 4 /\ AllDigits(fy) /\ y >= 1
                    /\ Len(fm) \in {1, 2} /\ AllDigits(fm) /\ m >= 1 /\ m <= 12
                    /\ Len(fd) \in {1, 2} /\ AllDigits(fd) /\ d >= 1
                    /\ (Len(fd0) = 2 /\ fd0[1] = 32 => Len(fd) = 1)
                    /\ d <= DaysInMonth(y, m)
                   THEN [ok |-> TRUE, day |-> Ordinal(y, m, d) - OrdinalAppleEpoch]
                   ELSE [ok |-> FALSE, day |-> 0]

\* a since that does not parse taken as the latest date there is
SinceBound_RejectAll(since) ==
    IF ~Truthy(since) THEN None
    ELSE LET pd == ParseDate(since)
         IN  IF pd.ok THEN <<pd.day>>
                      ELSE <<Ordinal(9999, 12, 31) - OrdinalAppleEpoch>>

\* the lower bound the query puts on m.date: None when since is absent or
\* does not parse (the filter is then left out)
SinceBound(since) ==
    IF ~Truthy(since) THEN None
    ELSE LET pd == ParseDate(since) IN IF pd.ok THEN <<pd.day>> ELSE None

\* the date filter with > in place of >=
Selected_Exclusive(st, contact_id, since) ==
    SelectSeq(st, LAMBDA r :
        /\ r.handle = contact_id
        /\ (SinceBound(since) # None => r.date > SinceBound(since)[1]))

\* WHERE h.id = ? [AND m.date >= ?]
Selected(st, contact_id, since) ==
    SelectSeq(st, LAMBDA r :
        /\ r.handle = contact_id
        /\ (SinceBound(since) # None => r.date >= SinceBound(since)[1]))

\* ORDER BY m.date DESC: insertion of a row into a sequence sorted by date
\* descending; rows of equal date stay in rowid order
InsertDesc(sorted, r) ==
    LET k == Cardinality({ i \in 1..Len(sorted) : sorted[i].date >= r.date })
    IN  SubSeq(sorted, 1, k) \o <<r>> \o SubSeq(sorted, k + 1, Len(sorted))

\* the first k rows, sorted
RECURSIVE SortedPrefix(_, _)
SortedPrefix(rows, k) ==
    IF k = 0 THEN <<>> ELSE InsertDesc(SortedPrefix(rows, k - 1), rows[k])

\* the query without its ORDER BY clause: rows come in rowid order
OrderByDateDesc_Unordered(rows) == rows

OrderByDateDesc(rows) == SortedPrefix(rows, Len(rows))

\* a window one row short of the number asked for
Limit_OneFewer(rows, n) == SubSeq(rows, 1, IF Len(rows) < n - 1 THEN Len(rows) ELSE n - 1)

\* LIMIT ?
Limit(rows, n) == SubSeq(rows, 1, IF Len(rows) < n THEN Len(rows) ELSE n)

\* the query without its LIMIT clause
Query_NoLimit(st, contact_id, since, limit) ==
    OrderByDateDesc(Selected(st, contact_id, since))

\* the rows conn.execute(query, params) yields
Query(st, contact_id, since, limit) ==
    Limit(OrderByDateDesc(Selected(st, contact_id, since)), limit * OVERFETCH)

\* attributedBody payloads of the stores of the model
S_see_you_then == <<115, 101, 101, 32, 121, 111, 117, 32, 116, 104, 101, 110>>
Body_see == B_streamtyped \o C_Sep \o B_NSString \o C_Sep \o S_see_you_then
Body_bad_container == B_bplist00 \o B_NSString      \* plistlib rejects it
Body_blank == B_NSString \o C_Sep \o C_Spaces
Body_blank_archive == B_bplist00 \o C_ObjNSString \o C_ObjSpacesUtf16
Bodies == { Body_see, Body_bad_container, Body_blank, Body_blank_archive }

\* extract_text_from_attributed_body on each of these payloads, computed once
PayloadText == [b \in Bodies |-> extract_text_from_attributed_body(b)]

\* line 254: extract_text_from_attributed_body(attributed_body)
ExtractedText(b) ==
    IF b \in Bodies THEN PayloadText[b] ELSE extract_text_from_attributed_body(b)

\* the test without the whitespace check: `not text`
NoText_NoStrip(text) == ~Truthy(text)

\* `not text or text.strip() == ''`
NoText(text) == ~Truthy(text) \/ Strip(text) = <<>>

\* the payload read whenever the row has one
NeedsExtraction_Always(row) == Truthy(row.body)

\* lines 250-253: the extractor is called for this row
NeedsExtraction(row) == NoText(row.text) /\ Truthy(row.body)

\* the text column alone, the attributedBody never read
RowText_ColumnOnly(row) == row.text

\* lines 249-254: the text column first, the attributedBody when it has none
RowText(row) ==
    IF NeedsExtraction(row) THEN ExtractedText(row.body) ELSE row.text

\* the keyword tested on the stored text column instead of the resolved text
RowSkipped_StoredColumn(row, keyword) ==
    \/ NoText(RowText(row))
    \/ (Truthy(keyword) /\ ~Contains(Lower(row.text), Lower(keyword)))

\* lines 257-262: the row is skipped
RowSkipped(row, keyword) ==
    \/ NoText(RowText(row))
    \/ (Truthy(keyword) /\ ~Contains(Lower(RowText(row)), Lower(keyword)))

\* lines 264-269; rowid is not part of the dict: it records which store row
\* the message was made from
Message(row) ==
    [text |-> RowText(row), is_from_me |-> row.is_from_me,
     date |-> row.date + APPLE_EPOCH_DAYS, contact |-> row.handle,
     rowid |-> row.rowid]

\* lines 246-273: the loop over the rows the query yields, from row i on
RECURSIVE CollectFrom(_, _, _, _, _)
CollectFrom(rows, i, keyword, limit, acc) ==
    IF i > Len(rows) THEN acc
    ELSE IF RowSkipped(rows[i], keyword)
      THEN CollectFrom(rows, i + 1, keyword, limit, acc)
      ELSE IF Len(acc) + 1 >= limit
        THEN Append(acc, Message(rows[i]))
        ELSE CollectFrom(rows, i + 1, keyword, limit, Append(acc, Message(rows[i])))

CollectRows(rows, keyword, limit, acc) == CollectFrom(rows, 1, keyword, limit, acc)

\* get_messages(contact_id, limit, keyword, since) on store st, as a function:
\* the list it returns when the store raises nothing
get_messages(st, contact_id, limit, keyword, since) ==
    CollectRows(Query(st, contact_id, since, limit), keyword, limit, <<>>)

---------------------------------------------------------------------------
(* main, check_fda_access, load_contacts and get_messages *)

MaxRows == 3
MaxLimit == 2

S_Phone2 == <<43, 50>>                                   \* "+2"
S_call_me == <<99, 97, 108, 108, 32, 109, 101>>
S_old_msg == <<111, 108, 100, 32, 109, 115, 103>>
S_SEE_ya == <<83, 69, 69, 32, 121, 97>>
S_See == <<83, 101, 101>>                                \* "See"
S_since_day2 == <<50, 48, 48, 49, 45, 48, 49, 45, 48, 51>>   \* "2001-01-03"
S_since_bad == <<50, 48, 48, 49, 45, 49, 51, 45, 48, 49>>    \* "2001-13-01"
S_since_far == <<50, 48, 57, 57, 45, 48, 49, 45, 48, 49>>    \* "2099-01-01"

Row(t, b, d, h, me) == [text |-> t, body |-> b, date |-> d, handle |-> h,
                        is_from_me |-> me]

\* the rows a store is made of
RowKinds ==
    { Row(S_call_me, None, 3, S_Phone1, TRUE),
      Row(None, Body_see, 2, S_Phone1, FALSE),
      Row(S_old_msg, Body_see, 1, S_Phone1, FALSE),
      Row(C_Spaces, Body_blank_archive, 2, S_Phone1, TRUE),
      Row(<<>>, Body_bad_container, 3, S_Phone1, FALSE),
      Row(None, Body_blank, 1, S_Phone1, TRUE),
      Row(S_SEE_ya, None, 2, S_Phone2, FALSE) }

WithRowIds(rows) ==
    [i \in 1..Len(rows) |->
        [text |-> rows[i].text, body |-> rows[i].body, date |-> rows[i].date,
         handle |-> rows[i].handle, is_from_me |-> rows[i].is_from_me,
         rowid |-> i]]

Stores == { WithRowIds(rows) : rows \in BoundedSeq(RowKinds, MaxRows) }

Args == [contact : { S_Phone1, S_bob }, recent : 1..MaxLimit,
         keyword : { None, S_See }, since : { None, S_since_day2, S_since_bad, S_since_far }]

NoContactsFile == [exists |-> FALSE, contacts |-> <<>>]
BobFile == [exists |-> TRUE, contacts |-> <<Entry(S_Bob, <<>>, S_Phone2, None)>>]
ContactsFiles ==
    { NoContactsFile, BobFile,
      [exists |-> TRUE, contacts |-> <<Entry(S_Al, <<S_AL>>, S_Phone1, None)>>] }

Init ==
    /\ fsState \in { "missing", "denied", "noprobe", "ok" }
    /\ store \in (IF fsState = "ok" THEN Stores ELSE { <<>> })
    \* (the date filter works on the address once resolved: it is varied for
    \* the addresses given directly only)
    /\ args \in { a \in Args : IsCanonicalInput(a.contact) \/ a.since = None }
    \* (resolution never reads the directory for an address given directly:
    \* the files are told apart for the other identifiers only)
    /\ contactsFile \in (IF IsCanonicalInput(args.contact)
                           THEN { NoContactsFile } ELSE ContactsFiles)
    /\ pc = "start"
    /\ accessOk = FALSE
    /\ fdaChecks = 0
    /\ gmCalls = 0
    /\ contact = None
    /\ conns = <<>>
    /\ cursor = <<>>
    /\ idx = 0
    /\ messages = <<>>
    /\ stderr = <<>>
    /\ mainResult = "running"
    /\ results = <<>>
    /\ extractCalls = <<>>
    /\ hasYaml \in (IF contactsFile = BobFile THEN BOOLEAN ELSE { TRUE })
    /\ IdleExtract
    /\ IdleResolve
    /\ IdleLookup /\ IdleAdd

\* check_fda_access(): the value returned and the connections left open.
\* (A store that is missing or cannot be read has no rows to tell apart:
\* Init gives it none.)
\* "missing": CHAT_DB.exists() is false. "denied": sqlite3.connect raises.
\* "noprobe": the connection opens and the probe raises, conn.close() is
\* not reached. "ok": the probe succeeds and the connection is closed.
check_fda_access(fs) ==
    IF fs = "missing" THEN [ret |-> FALSE, left |-> <<>>]
    ELSE IF fs = "denied" THEN [ret |-> FALSE, left |-> <<>>]
    ELSE IF fs = "noprobe" THEN [ret |-> FALSE, left |-> <<"check_fda_access">>]
    ELSE [ret |-> TRUE, left |-> <<>>]

\* load_contacts(path): nothing when the file is absent (line 145); with
\* the yaml module the contacts of the file (lines 148-150), without it an
\* empty list whatever the file holds (lines 151-155)
load_contacts(file, yaml) ==
    IF ~file.exists THEN <<>>
    ELSE IF yaml THEN file.contacts ELSE <<>>

ErrorReport == <<"ERROR: Cannot access iMessage database.",
                 "Grant Full Disk Access to your terminal app:">>

\* main, line 343: the access check
MainCheckAccess ==
    /\ pc = "start"
    /\ fdaChecks' = fdaChecks + 1
    /\ accessOk' = check_fda_access(fsState).ret
    /\ conns' = conns \o check_fda_access(fsState).left
    /\ pc' = "checked"
    /\ UNCHANGED <<lookupVars, addVars, extractCalls, results, hasYaml,
                   fsState, store, args, contactsFile, gmCalls, contact,
                   cursor, idx, messages, stderr, mainResult, extractVars,
                   resolveVars>>

\* main, lines 344-351: report and return 1
MainAccessDenied ==
    /\ pc = "checked"
    /\ accessOk = FALSE
    /\ stderr' = ErrorReport
    /\ mainResult' = "return 1"
    /\ pc' = "done"
    /\ UNCHANGED <<lookupVars, addVars, extractCalls, results, hasYaml,
                   fsState, store, args, contactsFile, accessOk, fdaChecks,
                   gmCalls, contact, conns, cursor, idx, messages,
                   extractVars, resolveVars>>

\* main going on to the query whatever the access check returned
MainResolve_Unguarded ==
    /\ pc = "checked"
    /\ contacts' = load_contacts(contactsFile, hasYaml)
    /\ contact' = resolve_contact(args.contact, contacts')
    /\ pc' = "resolved"
    /\ UNCHANGED <<lookupVars, addVars, extractCalls, results, hasYaml,
                   fsState, store, args, contactsFile, accessOk, fdaChecks,
                   gmCalls, conns, cursor, idx, messages, stderr, mainResult,
                   extractVars, identifier, resolved>>

\* main, lines 354-355: load the directory and resolve the identifier
MainResolve ==
    /\ pc = "checked"
    /\ accessOk = TRUE
    /\ contacts' = load_contacts(contactsFile, hasYaml)
    /\ contact' = resolve_contact(args.contact, contacts')
    /\ pc' = "resolved"
    /\ UNCHANGED <<lookupVars, addVars, extractCalls, results, hasYaml,
                   fsState, store, args, contactsFile, accessOk, fdaChecks,
                   gmCalls, conns, cursor, idx, messages, stderr, mainResult,
                   extractVars, identifier, resolved>>

\* get_messages, lines 212-213: called by main (line 358), opens the store
GetMessagesOpen ==
    /\ pc = "resolved"
    /\ gmCalls' = gmCalls + 1
    /\ conns' = Append(conns, "get_messages")
    /\ pc' = "gm_opened"
    /\ UNCHANGED <<lookupVars, addVars, extractCalls, results, hasYaml,
                   fsState, store, args, contactsFile, accessOk, fdaChecks,
                   contact, cursor, idx, messages, stderr, mainResult,
                   extractVars, resolveVars>>

\* `messages` as a list made once and shared by the calls, not emptied
GetMessagesExecute_SharedList ==
    /\ pc = "gm_opened"
    /\ cursor' = Query(store, contact[2], args.since, args.recent)
    /\ idx' = 0
    /\ extractCalls' = <<>>
    /\ pc' = "gm_loop"
    /\ UNCHANGED <<lookupVars, addVars, results, hasYaml, fsState, store,
                   args, contactsFile, accessOk, fdaChecks, gmCalls, contact,
                   conns, messages, stderr, mainResult, extractVars,
                   resolveVars>>

\* get_messages, lines 216-245: build and execute the query
GetMessagesExecute ==
    /\ pc = "gm_opened"
    /\ cursor' = Query(store, contact[2], args.since, args.recent)
    /\ idx' = 0
    /\ extractCalls' = <<>>
    /\ messages' = <<>>
    /\ pc' = "gm_loop"
    /\ UNCHANGED <<lookupVars, addVars, results, hasYaml, fsState, store,
                   args, contactsFile, accessOk, fdaChecks, gmCalls, contact,
                   conns, stderr, mainResult, extractVars, resolveVars>>

\* an exception leaves get_messages and, uncaught, main: nothing between
\* the raise and the exit of main runs, and the locals of get_messages
\* (cursor, messages) are gone; the connection object was not closed
Propagate ==
    /\ pc' = "done"
    /\ mainResult' = "raise"
    /\ cursor' = <<>>
    /\ idx' = 0
    /\ extractCalls' = <<>>
    /\ messages' = <<>>
    /\ UNCHANGED <<lookupVars, addVars, results, hasYaml, fsState, store,
                   args, contactsFile, accessOk, fdaChecks, gmCalls, contact,
                   conns, stderr, extractVars, resolveVars>>

\* line 244: conn.execute raises (sqlite3.OperationalError: locked database,
\* missing handle table, I/O error)
GetMessagesExecuteFails ==
    /\ pc = "gm_opened"
    /\ Propagate

\* line 247: fetching the next row raises (sqlite3.DatabaseError)
GetMessagesFetchFails ==
    /\ pc = "gm_loop"
    /\ idx < Len(cursor)
    /\ Propagate

\* the loop without its `break`: it goes on after limit messages
GetMessagesRow_NoBreak ==
    /\ pc = "gm_loop"
    /\ idx < Len(cursor)
    /\ messages' = IF RowSkipped(cursor[idx + 1], args.keyword) THEN messages
                   ELSE Append(messages, Message(cursor[idx + 1]))
    /\ idx' = idx + 1
    /\ extractCalls' = IF NeedsExtraction(cursor[idx + 1])
                         THEN Append(extractCalls, cursor[idx + 1].rowid)
                         ELSE extractCalls
    /\ pc' = "gm_loop"
    /\ UNCHANGED <<lookupVars, addVars, results, hasYaml, fsState, store,
                   args, contactsFile, accessOk, fdaChecks, gmCalls, contact,
                   conns, cursor, stderr, mainResult, extractVars,
                   resolveVars>>

\* lines 247-273: one iteration of the loop over the cursor. The loop has
\* no try/except: an exception out of the call at line 254 would leave
\* get_messages and main.
GetMessagesRow ==
    /\ pc = "gm_loop"
    /\ idx < Len(cursor)
    /\ LET row == cursor[idx + 1]
           kept == IF RowSkipped(row, args.keyword) THEN messages
                   ELSE Append(messages, Message(row))
       IN  IF RowText(row) = Raised
             THEN /\ messages' = <<>>
                  /\ idx' = 0
                  /\ extractCalls' = <<>>
                  /\ pc' = "done"
                  /\ mainResult' = "raise"
             ELSE /\ messages' = kept
                  /\ idx' = idx + 1
                  /\ extractCalls' = IF NeedsExtraction(row)
                                       THEN Append(extractCalls, row.rowid)
                                       ELSE extractCalls
                  /\ pc' = IF ~RowSkipped(row, args.keyword) /\ Len(kept) >= args.recent
                             THEN "gm_close" ELSE "gm_loop"
                  /\ mainResult' = mainResult
    /\ UNCHANGED <<lookupVars, addVars, results, hasYaml, fsState, store,
                   args, contactsFile, accessOk, fdaChecks, gmCalls, contact,
                   conns, cursor, stderr, extractVars, resolveVars>>

\* line 247: the cursor is exhausted
GetMessagesExhausted ==
    /\ pc = "gm_loop"
    /\ idx = Len(cursor)
    /\ pc' = "gm_close"
    /\ UNCHANGED <<lookupVars, addVars, extractCalls, results, hasYaml,
                   fsState, store, args, contactsFile, accessOk, fdaChecks,
                   gmCalls, contact, conns, cursor, idx, messages, stderr,
                   mainResult, extractVars, resolveVars>>

\* lines 275-276: close the connection and return the list
GetMessagesClose ==
    /\ pc = "gm_close"
    /\ conns' = SelectSeq(conns, LAMBDA c : c # "get_messages")
    /\ results' = Append(results, messages)
    /\ pc' = "returned"
    /\ UNCHANGED <<lookupVars, addVars, extractCalls, hasYaml, fsState, store,
                   args, contactsFile, accessOk, fdaChecks, gmCalls, contact,
                   cursor, idx, messages, stderr, mainResult, extractVars,
                   resolveVars>>

\* main, lines 366-378: print the result and return 0
MainOutput ==
    /\ pc = "returned"
    /\ mainResult' = "return 0"
    /\ pc' = "done"
    /\ UNCHANGED <<lookupVars, addVars, extractCalls, results, hasYaml,
                   fsState, store, args, contactsFile, accessOk, fdaChecks,
                   gmCalls, contact, conns, cursor, idx, messages, stderr,
                   extractVars, resolveVars>>

Next ==
    \/ MainCheckAccess
    \/ MainAccessDenied
    \/ MainResolve
    \/ GetMessagesOpen
    \/ GetMessagesExecute
    \/ GetMessagesExecuteFails
    \/ GetMessagesFetchFails
    \/ GetMessagesRow
    \/ GetMessagesExhausted
    \/ GetMessagesClose
    \/ MainOutput

Spec == Init /\ [][Next]_vars

---------------------------------------------------------------------------
(* get_messages called again by its caller *)

MaxCalls == 2

\* get_messages has returned; it is called once more with the same
\* arguments on the same store. Its locals are gone; the caller holds the
\* list it was given.
GetMessagesAgain ==
    /\ pc = "returned"
    /\ gmCalls < MaxCalls
    /\ cursor' = <<>>
    /\ idx' = 0
    /\ pc' = "resolved"
    /\ UNCHANGED <<lookupVars, addVars, extractCalls, results, hasYaml,
                   fsState, store, args, contactsFile, accessOk, fdaChecks,
                   gmCalls, contact, conns, messages, stderr, mainResult,
                   extractVars, resolveVars>>

\* the address is given directly: the directory plays no part
InitRepeat ==
    /\ Init
    /\ args.contact = S_Phone1
    /\ contactsFile = NoContactsFile

NextRepeat ==
    \/ MainCheckAccess
    \/ MainAccessDenied
    \/ MainResolve
    \/ GetMessagesOpen
    \/ GetMessagesExecute
    \/ GetMessagesExecuteFails
    \/ GetMessagesFetchFails
    \/ GetMessagesRow
    \/ GetMessagesExhausted
    \/ GetMessagesClose
    \/ GetMessagesAgain
    \/ MainOutput

SpecRepeat == InitRepeat /\ [][NextRepeat]_vars

---------------------------------------------------------------------------
(* main invoked again after the contacts file was edited *)

MaxInvocations == 2

\* main has ended; the contacts file is rewritten (or removed, or left as it
\* is) and main is invoked again in the same process with the same
\* arguments. The locals of the invocation that ended are gone; nothing at
\* module level was written by it. (`contacts` keeps its value here only
\* because nothing reads it before line 354 assigns it again.)
MainAgain ==
    /\ pc = "done"
    /\ fdaChecks < MaxInvocations
    /\ contactsFile' \in ContactsFiles
    /\ pc' = "start"
    /\ accessOk' = FALSE
    /\ contact' = None
    /\ cursor' = <<>>
    /\ idx' = 0
    /\ messages' = <<>>
    /\ extractCalls' = <<>>
    /\ stderr' = <<>>
    /\ mainResult' = "running"
    /\ UNCHANGED <<lookupVars, addVars, results, hasYaml, fsState, store,
                   args, fdaChecks, gmCalls, conns, extractVars, resolveVars>>

\* a name is given, with no keyword and no date
InitReload ==
    /\ Init
    /\ args.contact = S_bob
    /\ args.keyword = None
    /\ args.since = None

NextReload ==
    \/ MainCheckAccess
    \/ MainAccessDenied
    \/ MainResolve
    \/ GetMessagesOpen
    \/ GetMessagesExecute
    \/ GetMessagesExecuteFails
    \/ GetMessagesFetchFails
    \/ GetMessagesRow
    \/ GetMessagesExhausted
    \/ GetMessagesClose
    \/ MainOutput
    \/ MainAgain

SpecReload == InitReload /\ [][NextReload]_vars

---------------------------------------------------------------------------
(* Properties of extract_text_from_attributed_body *)

ExtractDone == extracted # NotRun

\* the buffer is made of class/type names and separators only
MetadataOnly == Len(chunks) > 0 /\ \A i \in 1..Len(chunks) : chunks[i] \in MetaChunks \cup SepChunks

\* C2: for a buffer that consists only of metadata-token text (class/type
\* names and their separators) the extractor returns None.
C2_MetadataOnlyYieldsNone ==
    (ExtractDone /\ MetadataOnly) => extracted.val = None

\* C9: the strategies are tried in the order regex, Decoder, Scanner: when
\* the regex finds nothing and the buffer begins with the container
\* signature and decodes to an eligible string, that string is returned, and
\* the Scanner is not consulted.
C9_DecoderBeforeScanner ==
    (ExtractDone /\ ProximityMatch(data) = None /\ StartsWith(data, B_bplist)
       /\ Decoder(data) # None)
    => (extracted.val = Decoder(data) /\ "scanner" \notin Range(extracted.tried))

\* C10: whenever the extractor returns a value other than None, the value is
\* non-empty after whitespace trimming.
C10_ResultNonEmptyAfterTrim ==
    (ExtractDone /\ extracted.val # None) => Strip(extracted.val) # <<>>

\* the object table of the buffer is valid and its first eligible entry
\* (string-typed, longer than one character, not a sentinel) is "Hello"
FirstEligibleIsHello ==
    LET plist == PlistLoads(data)
    IN  /\ plist.ok
        /\ \E k \in 1..Len(plist.objs) :
             /\ plist.objs[k] = B_Hello
             /\ \A j \in 1..(k - 1) :
                  \/ plist.objs[j] = None
                  \/ Len(plist.objs[j]) <= 1
                  \/ plist.objs[j] \in { B_null, B_NSString, B_NSMutableString }

\* C11: for a buffer that consists of the container signature followed by a
\* valid object table whose first eligible string entry is "Hello", decoding
\* returns "Hello".
C11_ContainerYieldsHello ==
    (ExtractDone /\ StartsWith(data, B_bplist00) /\ FirstEligibleIsHello)
    => extracted.val = B_Hello

\* the maximal runs of readable bytes of the buffer, as index pairs
MaximalRuns ==
    LET starts == { i \in 1..Len(data) :
                      IsReadable(data[i]) /\ (i = 1 \/ ~IsReadable(data[i - 1])) }
        ends == { j \in 1..Len(data) :
                    IsReadable(data[j]) /\ (j = Len(data) \/ ~IsReadable(data[j + 1])) }
    IN  { <<i, SetMin({ j \in ends : j >= i })>> : i \in starts }

\* those of at least four bytes that hold no metadata token, lower-cased
CandidateRuns ==
    { r \in MaximalRuns :
        /\ r[2] - r[1] + 1 >= 4
        /\ \A x \in MetadataTokens :
             ~Contains(Lower(SubSeq(data, r[1], r[2])), x) }

\* the candidates no other candidate is longer than
LongestRuns ==
    { r \in CandidateRuns :
        \A q \in CandidateRuns : q[2] - q[1] <= r[2] - r[1] }

\* the Scanner decided the result: the regex found nothing, and the buffer
\* does not begin with the container signature
ScannerDecides ==
    /\ ExtractDone
    /\ extracted.tried = <<"regex", "scanner">>
    /\ ~StartsWith(data, B_bplist)
    /\ CandidateRuns # {}

\* UTF-8 decoding of a run with every invalid byte replaced by U+FFFD
DecodeReplaced(run) == [k \in 1..Len(run) |-> IF run[k] >= 128 THEN 65533 ELSE run[k]]

\* C12 as stated: the longest candidate run, decoded with invalid sequences
\* replaced and trimmed, is what the Scanner returns (None when the trimmed
\* text is empty).
C12_LongestRunReturned ==
    ScannerDecides =>
        \E r \in LongestRuns :
            LET t == Strip(DecodeReplaced(SubSeq(data, r[1], r[2])))
            IN  extracted.val = IF t = <<>> THEN None ELSE t

\* C12: for a buffer without the container signature on which the regex
\* finds nothing, the Scanner selects the longest candidate run by byte
\* length; the bytes 0xC0-0xFF of the run are dropped, the rest is trimmed
\* and returned, and None is returned when nothing remains.
C12_LongestRunDecodedOrNone ==
    ScannerDecides =>
        \E r \in LongestRuns :
            LET t == Strip(SelectSeq(SubSeq(data, r[1], r[2]), LAMBDA b : b <= 126))
            IN  extracted.val = IF t = <<>> THEN None ELSE t

\* "Meeting at noon" is returned although a shorter candidate run precedes it
C12_Witness ==
    /\ ScannerDecides
    /\ extracted.val = B_Meeting
    /\ \E r \in CandidateRuns : r \notin LongestRuns /\ r[1] = 1


---------------------------------------------------------------------------
(* Properties of main and get_messages *)

\* control has left get_messages, by return or by exception
LeftGetMessages == gmCalls > 0 /\ pc \in { "returned", "done" }

\* C3: get_messages has closed the connection it opened when control
\* leaves it, whether it returns or an exception leaves it.
C3_ConnectionClosedOnEveryExit ==
    LeftGetMessages => "get_messages" \notin Range(conns)

\* C4: the list get_messages builds never has more than limit messages,
\* and the loop goes on only while it has fewer.
C4_LimitRespected ==
    /\ Len(messages) <= args.recent
    /\ pc = "gm_loop" => Len(messages) < args.recent

\* the loop stopped at limit messages with fetched rows still unread
C4_Witness ==
    /\ pc = "returned"
    /\ Len(messages) = args.recent
    /\ idx < Len(cursor)

\* C5: the messages are in non-increasing order of the store timestamp of
\* the rows they come from.
C5_MostRecentFirst ==
    \A i \in 1..Len(messages) : \A j \in i..Len(messages) :
        store[messages[i].rowid].date >= store[messages[j].rowid].date

\* two messages of different timestamps returned in the reverse of their
\* store order, a fetched row between or before them dropped
C5_Witness ==
    /\ pc = "returned"
    /\ Len(messages) = 2
    /\ messages[1].rowid > messages[2].rowid
    /\ store[messages[1].rowid].date > store[messages[2].rowid].date
    /\ idx > 2

KeywordIn(text, keyword) == Contains(Lower(text), Lower(keyword))

\* C6: with a keyword, every message's text contains it case-insensitively,
\* and a consumed row that has text is kept exactly when its resolved text
\* (plain column or text recovered from the payload) contains it, unless
\* the loop stopped at it.
C6_KeywordOnResolvedText ==
    Truthy(args.keyword) =>
      /\ \A i \in 1..Len(messages) : KeywordIn(messages[i].text, args.keyword)
      /\ \A k \in 1..idx :
           ~NoText(RowText(cursor[k]))
             => ((\E i \in 1..Len(messages) : messages[i].rowid = cursor[k].rowid)
                   <=> KeywordIn(RowText(cursor[k]), args.keyword))

\* a message kept for a keyword that only its payload holds, the keyword
\* differing in case from the text, after a row with text was dropped for
\* lacking it
C6_Witness ==
    /\ pc = "returned"
    /\ Truthy(args.keyword)
    /\ \E i \in 1..Len(messages) :
         /\ store[messages[i].rowid].text = None
         /\ ~Contains(messages[i].text, args.keyword)
    /\ \E k \in 1..idx :
         /\ ~NoText(RowText(cursor[k]))
         /\ ~KeywordIn(RowText(cursor[k]), args.keyword)

\* C7: every message has text that is not None and not empty after
\* trimming; a consumed row whose text column is empty and whose payload
\* yields no text is not among the messages.
C7_TextNonEmpty ==
    /\ \A i \in 1..Len(messages) :
         messages[i].text # None /\ Strip(messages[i].text) # <<>>
    /\ \A k \in 1..idx :
         (NoText(cursor[k].text)
            /\ (~Truthy(cursor[k].body) \/ NoText(ExtractedText(cursor[k].body))))
           => \A i \in 1..Len(messages) : messages[i].rowid # cursor[k].rowid

\* limit messages were collected although a row whose payload yields only
\* whitespace was consumed on the way
C7_Witness ==
    /\ pc = "gm_close"
    /\ Len(messages) = args.recent
    /\ idx > Len(messages)
    /\ \E k \in 1..idx :
         /\ NoText(cursor[k].text)
         /\ Truthy(cursor[k].body)
         /\ Truthy(ExtractedText(cursor[k].body))

\* C8: the access check runs once, before get_messages; when it returns
\* False main reports the access problem and returns 1, get_messages is
\* never called, and for a missing store no connection is ever opened.
C8_AccessCheckFirst ==
    /\ fdaChecks <= 1
    /\ pc # "start" => fdaChecks = 1
    /\ gmCalls > 0 => (fdaChecks = 1 /\ accessOk)
    /\ (fdaChecks = 1 /\ ~accessOk) =>
         /\ gmCalls = 0
         /\ "get_messages" \notin Range(conns)
         /\ cursor = <<>>
         /\ pc \in { "checked", "done" }
         /\ pc = "done" => (mainResult = "return 1" /\ stderr = ErrorReport)
         /\ fsState = "missing" => conns = <<>>

\* main has ended on the access check of a store that does not exist
C8_Witness ==
    /\ pc = "done"
    /\ fsState = "missing"
    /\ fdaChecks = 1
    /\ mainResult = "return 1"

\* C14: main ends in a classified outcome (return 0, or the report and
\* return 1) under every fatal condition; an error the datastore raises
\* while get_messages runs does not leave main as an unhandled exception.
C14_MainEndsClassified ==
    pc = "done" => mainResult \in { "return 0", "return 1" }

\* C15: check_fda_access returns True exactly when the file is there and
\* the probe succeeds, and in every outcome no connection it opened is
\* still open once it has returned.
C15_ProbeConnectionClosed ==
    fdaChecks > 0 =>
        /\ accessOk = (fsState = "ok")
        /\ "check_fda_access" \notin Range(conns)

\* row k of the cursor has no stored text and a payload the container
\* decoder rejects
BadPayloadRow(k) ==
    /\ NoText(cursor[k].text)
    /\ StartsWith(cursor[k].body, B_bplist)
    /\ ~PlistLoads(cursor[k].body).ok

\* C17: a condition of a single row never aborts the query: on the payload
\* of every row of the cursor the extractor raises nothing and yields None or a
\* string, and the loop ends only when the cursor is exhausted or the limit
\* is reached, so the rows after such a row are processed.
C17_RowNeverAborts ==
    pc \in { "gm_loop", "gm_close", "returned" } =>
        /\ \A k \in 1..Len(cursor) :
             Truthy(cursor[k].body) => ExtractedText(cursor[k].body) # Raised
        /\ (pc # "gm_loop" /\ idx < Len(cursor)) => Len(messages) >= args.recent

\* a row with a payload that does not decode was passed over and a later row
\* became a message
C17_Witness ==
    /\ pc = "returned"
    /\ \E k \in 1..idx : \E j \in (k + 1)..idx :
         /\ BadPayloadRow(k)
         /\ \E n \in 1..Len(messages) : messages[n].rowid = cursor[j].rowid

\* C18: with a since string that does not parse as a date, get_messages
\* raises nothing on its account and returns exactly the list it returns
\* with since absent.
C18_BadSinceIgnored ==
    (pc = "returned" /\ args.since = S_since_bad)
    => messages = get_messages(store, contact[2], args.recent, args.keyword, None)

\* with the month 13 given as since, a message older than every other date
\* of the model's arguments was returned
C18_Witness ==
    /\ pc = "returned"
    /\ args.since = S_since_bad
    /\ \E n \in 1..Len(messages) : store[messages[n].rowid].date = 1

\* the day number of the store's epoch that a since of the model stands for
SinceDay == IF args.since = S_since_day2 THEN 2 ELSE 35794

\* C19: when since parses, the bound is inclusive and in the store's epoch:
\* every message returned comes from a row dated at or after the bound,
\* the rows of the contact dated at or after it are the ones the query
\* yields, and a bound later than every row gives the empty list.
C19_SinceInclusiveBound ==
    (pc \in { "gm_loop", "gm_close", "returned" }
       /\ args.since \in { S_since_day2, S_since_far })
    => /\ \A n \in 1..Len(messages) : store[messages[n].rowid].date >= SinceDay
       /\ Len(cursor) < OVERFETCH * args.recent =>
            \A i \in 1..Len(store) :
                (store[i].handle = contact[2] /\ store[i].date >= SinceDay)
                => \E k \in 1..Len(cursor) : cursor[k].rowid = i
       /\ (\A i \in 1..Len(store) : store[i].date < SinceDay)
            => (cursor = <<>> /\ messages = <<>>)

\* a message dated exactly at the bound was returned while an older row of
\* the same contact was left out
C19_Witness ==
    /\ pc = "returned"
    /\ args.since = S_since_day2
    /\ \E n \in 1..Len(messages) : store[messages[n].rowid].date = 2
    /\ \E i \in 1..Len(store) :
         /\ store[i].handle = contact[2] /\ store[i].date = 1
         /\ ~RowSkipped(store[i], args.keyword)

\* C20: successive calls of get_messages with the same store, address and
\* filter, the store not changed in between, return identical lists.
C20_RepeatedCallSameResult ==
    \A i \in 1..Len(results) : \A j \in 1..Len(results) : results[i] = results[j]

\* a second call has returned, with messages in the list
C20_Witness ==
    /\ pc = "returned"
    /\ Len(results) >= 2
    /\ Len(results[2]) >= 2

S_see == <<115, 101, 101>>                               \* "see"

\* the texts of a list of messages
Texts(msgs) == [n \in 1..Len(msgs) |-> msgs[n].text]

\* the rows of the store for "+1" are A ("call me", newest), B (no plain
\* text, a payload that decodes to "see you then") and C ("old msg", oldest)
ScenarioStore ==
    LET mine == SelectSeq(store, LAMBDA r : r.handle = S_Phone1)
    IN  /\ Len(mine) = 3
        /\ \E a \in 1..3 : mine[a].text = S_call_me /\ mine[a].date = 3
        /\ \E b \in 1..3 : /\ NoText(mine[b].text) /\ mine[b].date = 2
                           /\ mine[b].body = Body_see
        /\ \E c \in 1..3 : mine[c].text = S_old_msg /\ mine[c].date = 1

\* C21: on the store A, B, C a query for the address with limit 2 and no
\* other filter returns "call me", "see you then" in that order, and with
\* the keyword "see" (in either case) it returns "see you then" alone.
C21_EndToEnd ==
    (pc = "returned" /\ ScenarioStore /\ contact[2] = S_Phone1
       /\ args.recent = 2 /\ args.since = None)
    => /\ Texts(messages) = IF args.keyword = None
                              THEN <<S_call_me, S_see_you_then>>
                              ELSE <<S_see_you_then>>
       /\ Texts(get_messages(store, S_Phone1, 2, S_see, None)) = <<S_see_you_then>>

\* the keyword query on the scenario store returned the payload text alone
C21_Witness ==
    /\ pc = "returned" /\ ScenarioStore /\ contact[2] = S_Phone1
    /\ args.recent = 2 /\ args.since = None /\ args.keyword = S_See
    /\ Texts(messages) = <<S_see_you_then>>

\* no entry of the directory main loads has the identifier as its name or as
\* a nickname, case-insensitively
NoEntryMatches ==
    \A i \in 1..Len(contactsFile.contacts) :
        LET c == contactsFile.contacts[i]
        IN  /\ (c.name = None \/ Lower(c.name) # Lower(args.contact))
            /\ \A k \in 1..Len(c.nicknames) :
                 Lower(c.nicknames[k]) # Lower(args.contact)

\* C22: for an identifier that is not an address and that no directory entry
\* matches, resolve_contact returns (input, input); nothing is reported,
\* main does not end on it, and the query is run with the raw identifier.
C22_UnmatchedFallsBack ==
    (contact # None /\ args.contact[1] # Plus
       /\ (\A k \in 1..Len(args.contact) : args.contact[k] # AtSign)
       /\ NoEntryMatches)
    => /\ contact = <<args.contact, args.contact>>
       /\ stderr = <<>>
       /\ mainResult # "return 1"
       /\ pc # "resolved" => gmCalls = 1
       /\ \A k \in 1..Len(cursor) : cursor[k].handle = args.contact

\* the directory has entries, none is "bob", and get_messages has returned
\* from the query for "bob"
C22_Witness ==
    /\ pc = "returned"
    /\ args.contact = S_bob
    /\ contactsFile.exists /\ Len(contactsFile.contacts) > 0
    /\ NoEntryMatches
    /\ contact = <<S_bob, S_bob>>
    /\ gmCalls = 1

\* store row i is for the address queried and not before the date bound
Matching(i) ==
    /\ store[i].handle = contact[2]
    /\ (args.since \in { S_since_day2, S_since_far } => store[i].date >= SinceDay)

\* store row i is one of the rows the query yielded
InCursor(i) == \E k \in 1..Len(cursor) : cursor[k].rowid = i

InGetMessages == pc \in { "gm_loop", "gm_close", "returned" }

\* C23: the query yields at most 2 x limit rows, they are matching rows and
\* no matching row left out is more recent than one of them; every message
\* is made from one of the rows read so far.
C23_WindowIsTwiceLimit ==
    InGetMessages =>
        /\ Len(cursor) <= 2 * args.recent
        /\ \A k \in 1..Len(cursor) :
             /\ Matching(cursor[k].rowid)
             /\ store[cursor[k].rowid].date = cursor[k].date
        /\ \A i \in 1..Len(store) :
             (Matching(i) /\ ~InCursor(i))
             => /\ Len(cursor) = 2 * args.recent
                /\ \A k \in 1..Len(cursor) : store[i].date <= cursor[k].date
        /\ \A n \in 1..Len(messages) :
             \E k \in 1..idx : cursor[k].rowid = messages[n].rowid

\* every row of a full window was dropped while a matching row with text
\* lies outside it
C23_Witness ==
    /\ pc = "returned"
    /\ Len(cursor) = 2 * args.recent
    /\ messages = <<>>
    /\ \E i \in 1..Len(store) :
         Matching(i) /\ ~InCursor(i) /\ ~RowSkipped(store[i], args.keyword)

\* the plain-text field of the row is not null, not empty and not blank
HasPlainText(row) == row.text # None /\ Strip(row.text) # <<>>

\* the extractor was called for cursor row k
ExtractorCalledFor(k) ==
    \E n \in 1..Len(extractCalls) : extractCalls[n] = cursor[k].rowid

\* cursor row k became a message
KeptAs(k) == { n \in 1..Len(messages) : messages[n].rowid = cursor[k].rowid }

\* C24: for every row read, a plain-text field that is non-empty after trim
\* is the text used and the extractor is not called; the extractor is called
\* only for rows whose plain text is null, empty or blank (on their payload);
\* and, the keyword aside, a row is dropped only when the plain text and the
\* payload both give no text.
C24_PlainTextFirst ==
    InGetMessages =>
        \A k \in 1..idx :
            LET row == cursor[k]
            IN  /\ HasPlainText(row)
                   => /\ ~ExtractorCalledFor(k)
                      /\ \A n \in KeptAs(k) : messages[n].text = row.text
                /\ ExtractorCalledFor(k)
                   => /\ ~HasPlainText(row)
                      /\ row.body # None /\ row.body # <<>>
                      /\ \A n \in KeptAs(k) :
                           messages[n].text = ExtractedText(row.body)
                /\ (KeptAs(k) = {} /\ args.keyword = None)
                   => /\ ~HasPlainText(row)
                      /\ \/ row.body = None
                         \/ /\ ExtractorCalledFor(k)
                            /\ NoText(ExtractedText(row.body))

\* a row with plain text and a payload that holds another text was kept with
\* its plain text, after the extractor had been called for a row without
\* plain text
C24_Witness ==
    /\ pc = "returned"
    /\ \E k \in 1..idx :
         /\ HasPlainText(cursor[k]) /\ Truthy(cursor[k].body)
         /\ KeptAs(k) # {}
         /\ Truthy(ExtractedText(cursor[k].body))
         /\ ExtractedText(cursor[k].body) # cursor[k].text
    /\ extractCalls # <<>>

\* C25: the resolution a second invocation of main makes is the one the
\* contacts file gives as it is at that invocation, whatever the file was at
\* the first: the first entry matching the identifier by name or nickname
\* that has an address, and the identifier itself when there is none.
C25_DirectoryReadAfresh ==
    (contact # None /\ fdaChecks = MaxInvocations) =>
        LET cs == contactsFile.contacts
            hits == { i \in 1..Len(cs) : MatchedWithAddress(args.contact, cs[i]) }
        IN  contact = IF ~contactsFile.exists \/ hits = {}
                        THEN <<args.contact, args.contact>>
                        ELSE <<cs[SetMin(hits)].name, cs[SetMin(hits)].phone>>

---------------------------------------------------------------------------
(* The entry resolve_contact settles on *)

\* the first entry of the directory that the identifier matches by name or
\* by nickname and that has an address; 0 when there is none
MatchedEntry(id, cs) ==
    LET hits == { i \in 1..Len(cs) : MatchedWithAddress(id, cs[i]) }
    IN  IF hits = {} THEN 0 ELSE SetMin(hits)

\* C26: when the identifier matches an entry by name or by nickname
\* (case-insensitively), the address returned is the entry's phone if it has
\* one and its email only when it has no phone, and the display name returned
\* is the entry's primary name (the nickname that matched when the entry has
\* no name at all).
C26_PhoneFirstAndPrimaryName ==
    LET m == MatchedEntry(identifier, contacts)
        c == contacts[m]
    IN  (resolved # None /\ ~IsCanonicalInput(identifier) /\ m > 0)
        => /\ Truthy(c.phone) => resolved[2] = c.phone
           /\ ~Truthy(c.phone) => resolved[2] = c.email
           /\ c.name # None => resolved[1] = c.name
           /\ c.name = None =>
                \E k \in 1..Len(c.nicknames) :
                   /\ Lower(c.nicknames[k]) = Lower(identifier)
                   /\ resolved[1] = c.nicknames[k]

\* "AL" matched the nickname of an entry named "Al" that has an email and no
\* phone: the name and the email came back
C26_Witness ==
    /\ identifier = S_AL
    /\ resolved = <<S_Al, S_Email>>
    /\ MatchedEntry(identifier, contacts) > 0
    /\ LET c == contacts[MatchedEntry(identifier, contacts)]
       IN  c.name = S_Al /\ c.phone = None /\ S_AL # c.name

---------------------------------------------------------------------------
(* What get_messages returns, said without the loop *)

\* the number of matching rows that come before store row i in the order of
\* the query: the more recent ones and, of the rows of the same date, the
\* ones stored earlier
Rank(i) ==
    Cardinality({ j \in 1..Len(store) :
                    /\ Matching(j)
                    /\ \/ store[j].date > store[i].date
                       \/ (store[j].date = store[i].date /\ j < i) })

\* the 2 x limit most recent matching rows
Window == { i \in 1..Len(store) : Matching(i) /\ Rank(i) < 2 * args.recent }

\* the text of a row: its plain text when that is not blank, else what the
\* extractor makes of its payload
ResolvedText(row) ==
    IF HasPlainText(row) \/ ~Truthy(row.body) THEN row.text
    ELSE ExtractedText(row.body)

\* the row has text and the text contains the keyword, if one is given
Passes(row) ==
    LET t == ResolvedText(row)
    IN  /\ t # None /\ Strip(t) # <<>>
        /\ (args.keyword # None => Contains(Lower(t), Lower(args.keyword)))

\* C27: once the loop is over, the messages are the first min(limit, n) of
\* the n rows of the window that have text and pass the keyword, in the order
\* of the query; no row outside the window is among them, however few they
\* are.
C27_FirstOfWindowThatPass ==
    pc \in { "gm_close", "returned" } =>
        LET G == { i \in Window : Passes(store[i]) }
            n == Cardinality(G)
        IN  /\ Len(messages) = IF args.recent < n THEN args.recent ELSE n
            /\ \A m \in 1..Len(messages) :
                 LET i == messages[m].rowid
                 IN  /\ i \in G
                     /\ Cardinality({ j \in G : Rank(j) < Rank(i) }) = m - 1
                     /\ messages[m].text = ResolvedText(store[i])

\* a keyword is given, a row of the full window has text without the
\* keyword, fewer than limit messages came back, and a matching row whose
\* text has the keyword lies outside the window
C27_Witness ==
    /\ pc = "returned"
    /\ args.keyword # None
    /\ Len(messages) < args.recent
    /\ \E i \in Window : HasPlainText(store[i]) /\ ~Passes(store[i])
    /\ \E i \in 1..Len(store) : Matching(i) /\ i \notin Window /\ Passes(store[i])

\* entry c is matched by the identifier and has neither a phone nor an email
MatchedWithoutAddress(id, c) ==
    /\ \/ (c.name # None /\ Lower(c.name) = Lower(id))
       \/ \E k \in 1..Len(c.nicknames) : Lower(c.nicknames[k]) = Lower(id)
    /\ ~Truthy(c.phone) /\ ~Truthy(c.email)

\* the entries matched without an address that the search meets before it
\* settles
PassedOver(id, cs) ==
    LET m == MatchedEntry(id, cs)
    IN  { i \in 1..Len(cs) : MatchedWithoutAddress(id, cs[i]) /\ (m = 0 \/ i < m) }

\* C28: an entry that matches the identifier and has neither phone nor email
\* does not end the resolution: what comes back is the name and address of
\* the first matching entry that has an address, and (identifier, identifier)
\* when no matching entry has one.
C28_AddresslessMatchPassedOver ==
    (resolved # None /\ ~IsCanonicalInput(identifier)
       /\ PassedOver(identifier, contacts) # {})
    => LET m == MatchedEntry(identifier, contacts)
       IN  IF m = 0
             THEN resolved = <<identifier, identifier>>
             ELSE /\ resolved[2] \in { contacts[m].phone, contacts[m].email }
                  /\ Truthy(resolved[2])
                  /\ contacts[m].name # None => resolved[1] = contacts[m].name

\* the first entry is named Bob and has no address, the second has the
\* nickname "bob" and a phone: the second one's name and phone came back
C28_Witness ==
    /\ identifier = S_bob
    /\ Len(contacts) = 2
    /\ contacts[1].name = S_Bob
    /\ MatchedWithoutAddress(identifier, contacts[1])
    /\ contacts[2].name = S_Al
    /\ contacts[2].phone = S_Phone1
    /\ resolved = <<S_Al, S_Phone1>>

---------------------------------------------------------------------------
(* lookup-contact.py: find_contact *)

S_Alan == <<65, 108, 97, 110>>          \* "Alan"
S_Sal == <<83, 97, 108>>                \* "Sal"
S_Bobby == <<66, 111, 98, 98, 121>>     \* "Bobby"

\* a contact as parse_contact_block makes it, reduced to the keys
\* find_contact reads
Person(n, ns) == [name |-> n, nicknames |-> ns]

\* the first loop, from entry i on (lines 134-142): the index of the first
\* contact whose name or one of whose nicknames equals the lower-cased
\* search name, 0 when the loop ends without a return
RECURSIVE ExactLoop(_, _, _)
ExactLoop(cs, search_lower, i) ==
    IF i > Len(cs) THEN 0
    ELSE IF Lower(cs[i].name) = search_lower THEN i
    ELSE IF \E k \in 1..Len(cs[i].nicknames) :
               Lower(cs[i].nicknames[k]) = search_lower THEN i
    ELSE ExactLoop(cs, search_lower, i + 1)

\* the second loop, from entry i on (lines 145-150): the same with `in`
RECURSIVE PartialLoop(_, _, _)
PartialLoop(cs, search_lower, i) ==
    IF i > Len(cs) THEN 0
    ELSE IF Contains(Lower(cs[i].name), search_lower) THEN i
    ELSE IF \E k \in 1..Len(cs[i].nicknames) :
               Contains(Lower(cs[i].nicknames[k]), search_lower) THEN i
    ELSE PartialLoop(cs, search_lower, i + 1)

Returned(c) == [done |-> TRUE, some |-> TRUE, contact |-> c]
ReturnedNone == [done |-> TRUE, some |-> FALSE, contact |-> NoPerson]

\* one loop in place of two: the first contact that matches in either way
find_contact_SinglePass(cs, search_name) ==
    LET p == PartialLoop(cs, Lower(search_name), 1)
    IN  IF p > 0 THEN Returned(cs[p]) ELSE ReturnedNone

\* find_contact(contacts, search_name)
find_contact(cs, search_name) ==
    LET search_lower == Lower(search_name)
        e == ExactLoop(cs, search_lower, 1)
        p == PartialLoop(cs, search_lower, 1)
    IN  IF e > 0 THEN Returned(cs[e])
        ELSE IF p > 0 THEN Returned(cs[p])
        ELSE ReturnedNone

MaxPeople == 2

People ==
    { Person(n, ns) : n \in { S_Al, S_Alan, S_Bob },
                      ns \in { <<>>, <<S_AL>>, <<S_Bobby>>, <<S_Sal, S_bob>> } }
SearchNames == { S_AL, S_bob, S_Bobby, S_zed, <<>> }

InitLookup ==
    /\ lc_contacts \in BoundedSeq(People, MaxPeople)
    /\ lc_search_name \in SearchNames
    /\ lc_found = NotLooked
    /\ IdleExtract /\ IdleResolve /\ IdleMain /\ IdleAdd

\* one call of find_contact(contacts, args.name), line 160
FindContact ==
    /\ ~lc_found.done
    /\ lc_found' = find_contact(lc_contacts, lc_search_name)
    /\ UNCHANGED <<lc_contacts, lc_search_name, addVars, extractVars,
                   resolveVars, mainVars>>

NextLookup == FindContact

SpecLookup == InitLookup /\ [][NextLookup]_vars

\* the contacts that match exactly, and the ones that match as a substring
ExactMatches ==
    { i \in 1..Len(lc_contacts) :
        LET c == lc_contacts[i]
        IN  \/ Lower(c.name) = Lower(lc_search_name)
            \/ \E k \in 1..Len(c.nicknames) :
                 Lower(c.nicknames[k]) = Lower(lc_search_name) }
PartialMatches ==
    { i \in 1..Len(lc_contacts) :
        LET c == lc_contacts[i]
        IN  \/ Contains(Lower(c.name), Lower(lc_search_name))
            \/ \E k \in 1..Len(c.nicknames) :
                 Contains(Lower(c.nicknames[k]), Lower(lc_search_name)) }

\* C29: find_contact returns the first contact that matches exactly when
\* there is one, whatever partial matches precede it; the first contact that
\* matches partially when none matches exactly; None when none matches.
C29_ExactBeforePartial ==
    lc_found.done =>
        IF ExactMatches # {}
          THEN lc_found.some /\ lc_found.contact = lc_contacts[SetMin(ExactMatches)]
          ELSE IF PartialMatches # {}
            THEN lc_found.some
                 /\ lc_found.contact = lc_contacts[SetMin(PartialMatches)]
            ELSE ~lc_found.some

\* "bob" is a substring of the first contact's nickname "Bobby" and equals
\* the name of the second, which was returned
C29_Witness ==
    /\ lc_found.done /\ lc_found.some
    /\ lc_search_name = S_bob
    /\ Len(lc_contacts) = 2
    /\ 1 \in PartialMatches /\ 1 \notin ExactMatches
    /\ 2 \in ExactMatches
    /\ lc_found.contact = lc_contacts[2]
    /\ lc_contacts[1] # lc_contacts[2]

---------------------------------------------------------------------------
(* add-contact.py: validation, contact_exists, format_contact_yaml, *)
(* add_contact and main *)

NL == 10
MARKER_WIDTH == 76      \* the '=' characters of template_marker

\* '+61'
T_plus61 ==
    <<43, 54, 49>>
\* '04'
T_04 ==
    <<48, 52>>
\* '614'
T_614 ==
    <<54, 49, 52>>
\* 'name:'
T_name_colon ==
    <<110, 97, 109, 101, 58>>
\* the header add_contact gives a new file (line 121)
T_header ==
    <<35, 32, 67, 111, 110, 116, 97, 99, 116, 115, 32, 68, 105, 114, 101,
      99, 116, 111, 114, 121, 10, 35, 32, 84, 104, 105, 115, 32, 102, 105,
      108, 101, 32, 105, 115, 32, 108, 111, 97, 100, 101, 100, 32, 119,
      104, 101, 110, 32, 116, 104, 101, 32, 109, 101, 115, 115, 97, 103,
      105, 110, 103, 32, 115, 107, 105, 108, 108, 32, 110, 101, 101, 100,
      115, 32, 116, 111, 32, 114, 101, 115, 111, 108, 118, 101, 32, 97, 32,
      99, 111, 110, 116, 97, 99, 116, 46, 10, 10, 99, 111, 110, 116, 97,
      99, 116, 115, 58, 10>>
\* '  - name: '
T_entry_name ==
    <<32, 32, 45, 32, 110, 97, 109, 101, 58, 32>>
\* '    nicknames:'
T_nicknames ==
    <<32, 32, 32, 32, 110, 105, 99, 107, 110, 97, 109, 101, 115, 58>>
\* '      - '
T_nick_item ==
    <<32, 32, 32, 32, 32, 32, 45, 32>>
\* '    context: '
T_context ==
    <<32, 32, 32, 32, 99, 111, 110, 116, 101, 120, 116, 58, 32>>
\* 'personal'
T_personal ==
    <<112, 101, 114, 115, 111, 110, 97, 108>>
\* '    relationship: "'
T_relationship ==
    <<32, 32, 32, 32, 114, 101, 108, 97, 116, 105, 111, 110, 115, 104, 105,
      112, 58, 32, 34>>
\* '"'
T_quote ==
    <<34>>
\* '    platforms:'
T_platforms ==
    <<32, 32, 32, 32, 112, 108, 97, 116, 102, 111, 114, 109, 115, 58>>
\* '      whatsapp:'
T_whatsapp ==
    <<32, 32, 32, 32, 32, 32, 119, 104, 97, 116, 115, 97, 112, 112, 58>>
\* '        phone: "'
T_phone ==
    <<32, 32, 32, 32, 32, 32, 32, 32, 112, 104, 111, 110, 101, 58, 32, 34>>
\* '      imessage:'
T_imessage_key ==
    <<32, 32, 32, 32, 32, 32, 105, 109, 101, 115, 115, 97, 103, 101, 58>>
\* '        email: "'
T_email ==
    <<32, 32, 32, 32, 32, 32, 32, 32, 101, 109, 97, 105, 108, 58, 32, 34>>
\* '      messenger:'
T_messenger_key ==
    <<32, 32, 32, 32, 32, 32, 109, 101, 115, 115, 101, 110, 103, 101, 114,
      58>>
\* '        username: "'
T_username ==
    <<32, 32, 32, 32, 32, 32, 32, 32, 117, 115, 101, 114, 110, 97, 109,
      101, 58, 32, 34>>
\* '    default_platform:'
T_default_platform ==
    <<32, 32, 32, 32, 100, 101, 102, 97, 117, 108, 116, 95, 112, 108, 97,
      116, 102, 111, 114, 109, 58>>
\* '      personal: '
T_default_personal ==
    <<32, 32, 32, 32, 32, 32, 112, 101, 114, 115, 111, 110, 97, 108, 58,
      32>>
\* 'imessage'
T_imessage ==
    <<105, 109, 101, 115, 115, 97, 103, 101>>
\* 'messenger'
T_messenger ==
    <<109, 101, 115, 115, 101, 110, 103, 101, 114>>
\* '# ' followed by 76 '='
template_marker == <<35, 32>> \o [i \in 1..MARKER_WIDTH |-> 61]


AU_LOCAL_LEN == 10      \* len(clean) == 10
AU_INTL_LEN == 11       \* len(clean) == 11

IsLetter(c) == (c >= 65 /\ c <= 90) \/ (c >= 97 /\ c <= 122)

\* re.sub(r'[^\d]', '', phone)
Digits(s) == SelectSeq(s, IsDigit)

\* validate_phone(phone): the number, normalised, or None
validate_phone(phone) ==
    IF ~Truthy(phone) THEN None
    ELSE LET p == Strip(phone)
             clean == Digits(p)
         IN  IF StartsWith(p, <<Plus>>) THEN p
             ELSE IF StartsWith(clean, T_04) /\ Len(clean) = AU_LOCAL_LEN
               THEN T_plus61 \o Tail(clean)
             ELSE IF StartsWith(clean, T_614) /\ Len(clean) = AU_INTL_LEN
               THEN <<Plus>> \o clean
             ELSE None

\* the classes [a-zA-Z0-9._%+-] and [a-zA-Z0-9.-]
IsEmailLocal(c) == IsLetter(c) \/ IsDigit(c) \/ c \in { 46, 95, 37, 43, 45 }
IsEmailDomain(c) == IsLetter(c) \/ IsDigit(c) \/ c \in { 46, 45 }

\* re.match(r'^[a-zA-Z0-9._%+-]+@[a-zA-Z0-9.-]+\.[a-zA-Z]{2,}$', email)
EmailPattern(e) ==
    \E a \in 2..Len(e) :
       /\ e[a] = AtSign
       /\ \A k \in 1..(a - 1) : IsEmailLocal(e[k])
       /\ \E dot \in (a + 2)..(Len(e) - 2) :
            /\ e[dot] = 46
            /\ \A k \in (a + 1)..(dot - 1) : IsEmailDomain(e[k])
            /\ \A k \in (dot + 1)..Len(e) : IsLetter(e[k])

\* validate_email(email): the address, stripped, or None
validate_email(email) ==
    IF ~Truthy(email) THEN None
    ELSE IF EmailPattern(Strip(email)) THEN Strip(email) ELSE None

\* the index after the run of whitespace that starts at i (i itself when
\* there is none)
RECURSIVE WsEnd(_, _)
WsEnd(s, i) == IF i <= Len(s) /\ IsSpace(s[i]) THEN WsEnd(s, i + 1) ELSE i

\* a literal matched at p under re.IGNORECASE
MatchAtCI(s, p, tok) == MatchAt(Lower(s), p, Lower(tok))

\* where ^ matches under re.MULTILINE
LineStarts(s) == { p \in 1..(Len(s) + 1) : p = 1 \/ s[p - 1] = NL }

\* \s*$ matched from r on under re.MULTILINE: some whitespace, then the end
\* of the text or a newline
BlankToEnd(s, r) == \E e \in r..WsEnd(s, r) : e = Len(s) + 1 \/ s[e] = NL

\* ^\s+-\s+ matched at p: the index after it, 0 when it does not match
ItemAt(s, p) ==
    LET dash == WsEnd(s, p)
        q == WsEnd(s, dash + 1)
    IN  IF dash > p /\ dash <= Len(s) /\ s[dash] = Hyphen /\ q > dash + 1
          THEN q ELSE 0

\* re.search(rf'^\s+-\s+name:\s+{name}\s*$', content, MULTILINE | IGNORECASE)
NameLine(s, name) ==
    \E p \in LineStarts(s) :
       LET q == ItemAt(s, p)
           n == WsEnd(s, q + Len(T_name_colon))
       IN  /\ q > 0
           /\ MatchAtCI(s, q, T_name_colon)
           /\ n > q + Len(T_name_colon)
           /\ MatchAtCI(s, n, name)
           /\ BlankToEnd(s, n + Len(name))

\* re.search(rf'^\s+-\s+{name}\s*$', content, MULTILINE | IGNORECASE)
ItemLine(s, name) ==
    \E p \in LineStarts(s) :
       LET q == ItemAt(s, p)
       IN  /\ q > 0
           /\ MatchAtCI(s, q, name)
           /\ BlankToEnd(s, q + Len(name))

\* contact_exists(contacts_path, name); a file that is not there has no
\* contact (line 65)
contact_exists(file, name) ==
    file.exists /\ (NameLine(file.content, name) \/ ItemLine(file.content, name))

\* name.split(): the maximal runs of non-whitespace
RECURSIVE SplitFrom(_, _)
SplitFrom(s, i) ==
    IF i > Len(s) THEN <<>>
    ELSE IF IsSpace(s[i]) THEN SplitFrom(s, i + 1)
    ELSE LET j == CHOOSE k \in i..Len(s) :
                     /\ \A m \in i..k : ~IsSpace(s[m])
                     /\ (k = Len(s) \/ IsSpace(s[k + 1]))
         IN  <<SubSeq(s, i, j)>> \o SplitFrom(s, j + 1)

\* generate_nicknames(name): the first word, and the last when there are
\* several
generate_nicknames(name) ==
    LET parts == SplitFrom(name, 1)
    IN  (IF Len(parts) > 0 THEN <<parts[1]>> ELSE <<>>)
        \o (IF Len(parts) > 1 THEN <<parts[Len(parts)]>> ELSE <<>>)

\* '\n'.join(lines)
RECURSIVE Join(_)
Join(lines) ==
    IF Len(lines) = 0 THEN <<>>
    ELSE IF Len(lines) = 1 THEN lines[1]
    ELSE lines[1] \o <<NL>> \o Join(Tail(lines))

\* format_contact_yaml(name, phone, email, messenger, context, relationship)
format_contact_yaml(name, phone, email, messenger, context, relationship) ==
    LET nicks == generate_nicknames(name)
    IN  Join(<<T_entry_name \o name, T_nicknames>>
             \o [k \in 1..Len(nicks) |-> T_nick_item \o nicks[k]]
             \o <<T_context \o context,
                  T_relationship \o relationship \o T_quote,
                  T_platforms>>
             \o (IF Truthy(phone)
                   THEN <<T_whatsapp, T_phone \o phone \o T_quote,
                          T_imessage_key, T_phone \o phone \o T_quote>>
                        \o (IF Truthy(email)
                              THEN <<T_email \o email \o T_quote>> ELSE <<>>)
                   ELSE <<>>)
             \o (IF Truthy(messenger)
                   THEN <<T_messenger_key, T_username \o messenger \o T_quote>>
                   ELSE <<>>)
             \o <<T_default_platform,
                  T_default_personal
                    \o (IF Truthy(phone) THEN T_imessage ELSE T_messenger)>>)

\* the index of the first occurrence of tok in s, 0 when there is none
Find(s, tok) ==
    LET at == { p \in 1..(Len(s) - Len(tok) + 1) : MatchAt(s, p, tok) }
    IN  IF at = {} THEN 0 ELSE SetMin(at)

\* the new contact written in place of the file
add_contact_Overwrite(file, contact_yaml) ==
    [exists |-> TRUE, content |-> T_header \o <<NL>> \o contact_yaml \o <<NL>>]

\* add_contact(contacts_path, contact_yaml): the file as it is written
add_contact(file, contact_yaml) ==
    LET content == IF file.exists THEN file.content ELSE T_header
        m == Find(content, template_marker)
    IN  [exists |-> TRUE,
         content |->
           IF m > 0
             THEN RStrip(SubSeq(content, 1, m - 1)) \o <<NL, NL>> \o contact_yaml
                  \o <<NL, NL>> \o SubSeq(content, m, Len(content))
             ELSE RStrip(content) \o <<NL, NL>> \o contact_yaml \o <<NL>>]
\* 'Al Jo'
S_Al_Jo ==
    <<65, 108, 32, 74, 111>>
\* '12'
S_phone_short ==
    <<49, 50>>
\* '0412 345 678'
S_phone_au ==
    <<48, 52, 49, 50, 32, 51, 52, 53, 32, 54, 55, 56>>
\* 'a@b.co'
S_email_ok ==
    <<97, 64, 98, 46, 99, 111>>
\* 'bj'
S_bj ==
    <<98, 106>>
\* 'contacts:\n'
F_head ==
    <<99, 111, 110, 116, 97, 99, 116, 115, 58, 10>>
\* '  - name: Bob\n    nicknames:\n      - Al Jo\n'
F_bob ==
    <<32, 32, 45, 32, 110, 97, 109, 101, 58, 32, 66, 111, 98, 10, 32, 32,
      32, 32, 110, 105, 99, 107, 110, 97, 109, 101, 115, 58, 10, 32, 32,
      32, 32, 32, 32, 45, 32, 65, 108, 32, 74, 111, 10>>
\* '\n\n'
F_blank ==
    <<10, 10>>
\* '- zed\n'
F_flush ==
    <<45, 32, 122, 101, 100, 10>>
\* '\n# template\n'
T_template_rest ==
    <<10, 35, 32, 116, 101, 109, 112, 108, 97, 116, 101, 10>>
F_template == template_marker \o T_template_rest

MaxFileChunks == 2

FileChunks == { F_head, F_bob, F_blank, F_flush, F_template }
AddFiles ==
    { [exists |-> FALSE, content |-> <<>>] }
    \cup { [exists |-> TRUE, content |-> Flatten(cs)] :
             cs \in BoundedSeq(FileChunks, MaxFileChunks) }

\* the command lines of the model; context and relationship keep their
\* defaults (lines 142-144)
AddArgs ==
    [name : { S_bob, S_zed, S_Al_Jo },
     phone : { None, S_Phone1, S_phone_short, S_phone_au },
     email : { None, S_Email, S_email_ok },
     messenger : { None, S_bj },
     dry_run : BOOLEAN]

InitAdd ==
    /\ ac_args \in AddArgs
    /\ ac_file \in AddFiles
    /\ ac_before = ac_file
    /\ ac_pc = "start"
    /\ ac_phone = None /\ ac_email = None
    /\ ac_contact_yaml = <<>>
    /\ ac_result = NoResult
    /\ ac_exit = -1
    /\ IdleExtract /\ IdleResolve /\ IdleMain /\ IdleLookup

Failure(msg) == [success |-> FALSE, error |-> msg, dry_run |-> FALSE]

\* main, lines 152-159: the name is looked for in the file
AcContactExists ==
    /\ ac_pc = "start"
    /\ IF contact_exists(ac_file, ac_args.name)
         THEN /\ ac_result' = Failure("Contact already exists")
              /\ ac_exit' = 1
              /\ ac_pc' = "exited"
         ELSE /\ ac_pc' = "validate"
              /\ UNCHANGED <<ac_result, ac_exit>>
    /\ UNCHANGED <<ac_args, ac_file, ac_before, ac_phone, ac_email,
                   ac_contact_yaml, lookupVars, extractVars, resolveVars,
                   mainVars>>

\* main, lines 162-190: phone and email are validated, and one contact
\* method at least is asked for
AcValidate ==
    /\ ac_pc = "validate"
    /\ LET phone == IF Truthy(ac_args.phone) THEN validate_phone(ac_args.phone)
                                              ELSE None
           email == IF Truthy(ac_args.email) THEN validate_email(ac_args.email)
                                              ELSE None
           error == IF Truthy(ac_args.phone) /\ ~Truthy(phone)
                      THEN "Invalid phone number format"
                    ELSE IF Truthy(ac_args.email) /\ ~Truthy(email)
                      THEN "Invalid email format"
                    ELSE IF ~Truthy(phone) /\ ~Truthy(email)
                            /\ ~Truthy(ac_args.messenger)
                      THEN "Must provide at least one contact method"
                    ELSE ""
       IN  /\ ac_phone' = phone
           /\ ac_email' = email
           /\ IF error # ""
                THEN /\ ac_result' = Failure(error)
                     /\ ac_exit' = 1
                     /\ ac_pc' = "exited"
                ELSE /\ ac_pc' = "format"
                     /\ UNCHANGED <<ac_result, ac_exit>>
    /\ UNCHANGED <<ac_args, ac_file, ac_before, ac_contact_yaml, lookupVars,
                   extractVars, resolveVars, mainVars>>

\* main, lines 193-200
AcFormat ==
    /\ ac_pc = "format"
    /\ ac_contact_yaml' = format_contact_yaml(ac_args.name, ac_phone, ac_email,
                                              ac_args.messenger, T_personal, <<>>)
    /\ ac_pc' = "formatted"
    /\ UNCHANGED <<ac_args, ac_file, ac_before, ac_phone, ac_email, ac_result,
                   ac_exit, lookupVars, extractVars, resolveVars, mainVars>>

\* main, lines 202-209: --dry-run prints the entry and exits
AcDryRun ==
    /\ ac_pc = "formatted"
    /\ ac_args.dry_run
    /\ ac_result' = [success |-> TRUE, error |-> "", dry_run |-> TRUE]
    /\ ac_exit' = 0
    /\ ac_pc' = "exited"
    /\ UNCHANGED <<ac_args, ac_file, ac_before, ac_phone, ac_email,
                   ac_contact_yaml, lookupVars, extractVars, resolveVars,
                   mainVars>>

\* main, lines 211-224: the entry is written and success reported
AcAdd ==
    /\ ac_pc = "formatted"
    /\ ~ac_args.dry_run
    /\ ac_file' = add_contact(ac_file, ac_contact_yaml)
    /\ ac_result' = [success |-> TRUE, error |-> "", dry_run |-> FALSE]
    /\ ac_exit' = 0
    /\ ac_pc' = "exited"
    /\ UNCHANGED <<ac_args, ac_before, ac_phone, ac_email, ac_contact_yaml,
                   lookupVars, extractVars, resolveVars, mainVars>>

NextAdd == AcContactExists \/ AcValidate \/ AcFormat \/ AcDryRun \/ AcAdd

SpecAdd == InitAdd /\ [][NextAdd]_vars

\* the lines of a text from index start on, without their NL
RECURSIVE LinesFrom(_, _)
LinesFrom(s, start) ==
    LET nl == { p \in start..Len(s) : s[p] = NL }
    IN  IF nl = {} THEN <<SubSeq(s, start, Len(s))>>
        ELSE <<SubSeq(s, start, SetMin(nl) - 1)>> \o LinesFrom(s, SetMin(nl) + 1)

\* the lines that hold something, without their trailing whitespace
TextLines(s) ==
    LET ls == LinesFrom(s, 1)
    IN  SelectSeq([k \in 1..Len(ls) |-> RStrip(ls[k])], LAMBDA l : Len(l) > 0)

\* the number of entries of a contacts text: its lines '  - name: ...'
EntryCount(s) == Cardinality({ p \in LineStarts(s) : MatchAt(s, p, T_entry_name) })

\* main has run to a successful add
Added == ac_pc = "exited" /\ ac_exit = 0 /\ ~ac_result.dry_run

=============================================================================
